---- MODULE Spec2Model ----
(***************************************************************************)
(* LogHunter (loghunter.py): the log store, its loading operations and its *)
(* query operations, as a state machine.                                   *)
(*                                                                         *)
(* Text is modelled at two levels.  A word is a sequence of one-character  *)
(* strings, so that str.upper() is computed character by character.  A     *)
(* line is a sequence of tokens separated by blanks: a word, an ISO-shaped *)
(* timestamp (what PATTERNS['timestamp_iso'] matches), a common-log        *)
(* timestamp, an IP address, a number, or a line terminator.  Optional     *)
(* values (None in the source) are <<>> when absent and <<v>> when         *)
(* present.  Spec is the library used through its methods; SpecPatterns    *)
(* and SpecReload use it on logs with repeated content; SpecTime adds      *)
(* parse_time_arg; SpecCli is one run of main from the command line.       *)
(***************************************************************************)
EXTENDS Integers, Sequences, FiniteSets, TLC

VARIABLES lines, last

vars == <<lines, last>>

\* ---------------------------------------------------------------- bounds
MaxStore == 3   \* records the store may hold
MaxN == 4       \* largest n given to head / tail
MaxCtx == 1     \* largest before / after given to context
MaxTime == 3    \* largest instant used as a time bound
MaxPatStore == 4 \* records the store may hold when patterns are counted
MaxAge == 90000 \* seconds from datetime.min to the instant 0 of the model

\* ---------------------------------------------------------------- optionals
None == <<>>
Some(v) == <<v>>
IsNone(x) == x = <<>>
Val(x) == x[1]

\* ---------------------------------------------------------------- characters
LowerAlphabet ==
  <<"a","b","c","d","e","f","g","h","i","j","k","l","m",
    "n","o","p","q","r","s","t","u","v","w","x","y","z">>

UpperAlphabet ==
  <<"A","B","C","D","E","F","G","H","I","J","K","L","M",
    "N","O","P","Q","R","S","T","U","V","W","X","Y","Z">>

\* str.upper() on one ASCII character
UpperChar(c) ==
  IF \E i \in 1..26 : LowerAlphabet[i] = c
  THEN UpperAlphabet[CHOOSE i \in 1..26 : LowerAlphabet[i] = c]
  ELSE c

\* str.upper() on a word
Upper(w) == [i \in 1..Len(w) |-> UpperChar(w[i])]

\* ---------------------------------------------------------------- pattern registry
LOG_LEVELS ==
  << <<"T","R","A","C","E">>,
     <<"D","E","B","U","G">>,
     <<"I","N","F","O">>,
     <<"W","A","R","N">>,
     <<"W","A","R","N","I","N","G">>,
     <<"E","R","R","O","R">>,
     <<"F","A","T","A","L">>,
     <<"C","R","I","T","I","C","A","L">> >>

EXCEPTION_WORDS ==
  { <<"E","x","c","e","p","t","i","o","n">>,
    <<"E","r","r","o","r">>,
    <<"T","r","a","c","e","b","a","c","k">> }

\* ---------------------------------------------------------------- tokens
Word(w) == [kind |-> "word", chars |-> w]
\* an ISO-shaped substring; ok tells whether datetime.fromisoformat accepts it
Iso(t, ok) == [kind |-> "iso", t |-> t, ok |-> ok]
\* a substring PATTERNS['timestamp_common'] matches
Clf(t) == [kind |-> "clf", t |-> t]
\* a dotted quad PATTERNS['ip_address'] matches
Ip(a) == [kind |-> "ip", addr |-> a]
\* a standalone run of digits, what \b\d+\b matches
Num(v) == [kind |-> "num", value |-> v]
\* a UTC offset written behind an ISO timestamp, o seconds east
Tz(o) == [kind |-> "tz", offset |-> o]
NL == [kind |-> "eol", chars |-> <<"\n">>]
CR == [kind |-> "eol", chars |-> <<"\r">>]

\* PATTERNS['log_level'] (re.IGNORECASE, \b...\b) matches exactly this token
MatchesLogLevel(tok) ==
  /\ tok.kind = "word"
  /\ \E i \in 1..Len(LOG_LEVELS) : Upper(tok.chars) = LOG_LEVELS[i]

\* PATTERNS['timestamp_iso'] matches this token
MatchesTimestampIso(tok) == tok.kind = "iso"

\* PATTERNS['exception'] (case-sensitive, \b...\b) matches this token
MatchesException(tok) ==
  /\ tok.kind = "word"
  /\ tok.chars \in EXCEPTION_WORDS

\* regex.search(text): the position of the first token the pattern matches,
\* 0 if none; hits[i] tells whether it matches the i-th token
Search(hits) ==
  IF \E i \in 1..Len(hits) : hits[i]
  THEN CHOOSE i \in 1..Len(hits) : hits[i] /\ \A j \in 1..(i - 1) : ~hits[j]
  ELSE 0

\* ---------------------------------------------------------------- instants
\* a datetime: t is the instant, aware tells whether it carries a UTC offset
Naive(t) == [t |-> t, aware |-> FALSE]
Aware(t) == [t |-> t, aware |-> TRUE]

\* ---------------------------------------------------------------- LogLine
RECURSIVE RStrip(_)
\* str.rstrip('\n\r')
RStrip(text) ==
  IF Len(text) > 0 /\ text[Len(text)].kind = "eol"
  THEN RStrip(SubSeq(text, 1, Len(text) - 1))
  ELSE text

\* LogLine._extract_timestamp: the first ISO-shaped match, None if it does
\* not parse (later matches are not tried)
ExtractTimestamp(text) ==
  LET m == Search([i \in 1..Len(text) |-> MatchesTimestampIso(text[i])])
  IN IF m # 0 /\ text[m].ok THEN Some(Naive(text[m].t)) ELSE None

\* LogLine._extract_level: the first level word, uppercased
ExtractLevel(text) ==
  LET m == Search([i \in 1..Len(text) |-> MatchesLogLevel(text[i])])
  IN IF m # 0 THEN Some(Upper(text[m].chars)) ELSE None

\* ---------------------------------------------------------------- file system
\* Paths in the order sorted() gives them
Paths == <<"a.log", "b.log", "e.log", "n.log", "z.log">>

PathRank(p) == CHOOSE i \in 1..Len(Paths) : Paths[i] = p

\* The files that exist, each with the raw lines iterating over it yields;
\* z.log does not exist.  a.log, b.log and e.log are the logs the queries
\* are studied on; n.log holds lines that differ in their volatile parts.
FileSystem ==
  [ p \in {"a.log", "b.log", "e.log", "n.log"} |->
      CASE p = "a.log" ->
             << <<Iso(2, TRUE), Word(<<"e","r","r","o","r">>), Word(<<"T","e","s","t">>), NL>>,
                <<Word(<<"W","a","r","n">>), Word(<<"E","r","r","o","r">>), CR, NL>> >>
        [] p = "b.log" ->
             << <<Iso(9, FALSE), Iso(3, TRUE), Word(<<"E","x","c","e","p","t","i","o","n">>),
                  Word(<<"C","R","I","T","I","C","A","L">>), NL>>,
                <<Iso(1, TRUE), Word(<<"d","o","n","e">>), Word(<<"T","r","a","c","e","b","a","c","k">>)>> >>
        [] p = "n.log" ->
             << <<Iso(2, TRUE), Word(<<"r","e","t","r","y">>), Num(1), NL>>,
                <<Clf(3), Word(<<"r","e","t","r","y">>), Num(2), NL>>,
                <<Word(<<"f","r","o","m">>), Ip(7), NL>> >>
        [] OTHER -> <<>> ]

Exists(p) == p \in DOMAIN FileSystem

\* every raw line some file holds
RawLines ==
  UNION { {FileSystem[p][k] : k \in 1..Len(FileSystem[p])} : p \in DOMAIN FileSystem }

\* what LogLine.__init__ derives from the text of one raw line
Annotate(raw) ==
  LET text == RStrip(raw)
  IN [ line      |-> text,
       timestamp |-> ExtractTimestamp(text),
       level     |-> ExtractLevel(text) ]

\* Annotate, tabulated once over the raw lines
Annotation == [raw \in RawLines |-> Annotate(raw)]

\* LogLine.__init__; id is the identity of the created object
LogLine(raw, line_num, file_path, id) ==
  LET a == Annotation[raw]
  IN [ line      |-> a.line,
       line_num  |-> line_num,
       file_path |-> file_path,
       timestamp |-> a.timestamp,
       level     |-> a.level,
       id        |-> id ]

\* ---------------------------------------------------------------- loading
\* A load of one file either completes (fault None) or raises after Val(fault)
\* lines were read; opening a file that does not exist raises at once.
Faults(p) ==
  {None} \cup (IF Exists(p) THEN {Some(k) : k \in 0..Len(FileSystem[p])} ELSE {})

\* the number of records one load_file call appends
Contributed(file_path, fault) ==
  IF ~Exists(file_path) THEN 0
  ELSE IF IsNone(fault) THEN Len(FileSystem[file_path])
  ELSE Val(fault)

\* whether the call ends in the except branch (a warning is printed)
Warns(file_path, fault) == ~Exists(file_path) \/ ~IsNone(fault)

\* load_file numbering the lines from 0
load_file_from_zero(store, file_path, fault) ==
  store \o [ k \in 1..Contributed(file_path, fault) |->
               LogLine(FileSystem[file_path][k], k - 1, file_path, Len(store) + k) ]

\* load_file assigning the list of the file's records instead of appending
load_file_assigning(store, file_path, fault) ==
  [ k \in 1..Contributed(file_path, fault) |->
      LogLine(FileSystem[file_path][k], k, file_path, k) ]

\* LogHunter.load_file: the store after the call
load_file(store, file_path, fault) ==
  store \o [ k \in 1..Contributed(file_path, fault) |->
               LogLine(FileSystem[file_path][k], k, file_path, Len(store) + k) ]

RECURSIVE SortedPaths(_)
\* sorted(files)
SortedPaths(files) ==
  IF files = {} THEN <<>>
  ELSE LET first == CHOOSE p \in files : \A q \in files : PathRank(p) <= PathRank(q)
       IN <<first>> \o SortedPaths(files \ {first})

RECURSIVE LoadEach(_, _, _)
\* the loop of load_files over the sorted paths
LoadEach(store, paths, faults) ==
  IF paths = <<>> THEN store
  ELSE LoadEach(load_file(store, Head(paths), faults[Head(paths)]), Tail(paths), faults)

\* LogHunter.load_files: files is what glob.glob returned
load_files(store, files, faults) ==
  IF files = {} THEN store
  ELSE LoadEach(store, SortedPaths(files), faults)

\* ---------------------------------------------------------------- queries
\* how a call ends: it returns a value, or raises an exception
Returned(v) == [exc |-> "none", val |-> v]
Raised(e) == [exc |-> e, val |-> <<>>]
\* raise e(message)
RaisedWith(e, message) == [exc |-> e, val |-> message]

Min(a, b) == IF a < b THEN a ELSE b
Max(a, b) == IF a > b THEN a ELSE b

\* seq[start:stop] of Python, start and stop any integers
PySlice(seq, start, stop) ==
  LET n == Len(seq)
      lo == IF start < 0 THEN Max(n + start, 0) ELSE Min(start, n)
      hi == IF stop < 0 THEN Max(n + stop, 0) ELSE Min(stop, n)
  IN SubSeq(seq, lo + 1, hi)

\* matches_level comparing the requested levels as given, without upper()
matches_level_as_given(rec, levels) ==
  IF IsNone(rec.level) THEN FALSE
  ELSE \E i \in 1..Len(levels) : levels[i] = Val(rec.level)

\* LogLine.matches_level
matches_level(rec, levels) ==
  IF IsNone(rec.level) THEN FALSE
  ELSE \E i \in 1..Len(levels) : Upper(levels[i]) = Val(rec.level)

\* filter_by_level returning the matching records last first
filter_by_level_reversed(store, levels) ==
  LET kept == SelectSeq(store, LAMBDA rec : matches_level(rec, levels))
  IN [k \in 1..Len(kept) |-> kept[Len(kept) + 1 - k]]

\* LogHunter.filter_by_level
filter_by_level(store, levels) ==
  SelectSeq(store, LAMBDA rec : matches_level(rec, levels))

\* whether pat occurs in chars as a contiguous run of characters
Contains(chars, pat) ==
  \E k \in 0..(Len(chars) - Len(pat)) : SubSeq(chars, k + 1, k + Len(pat)) = pat

\* LogLine.matches_pattern for a pattern of literal letters
matches_pattern(rec, pattern, ignore_case) ==
  \E i \in 1..Len(rec.line) :
    /\ rec.line[i].kind = "word"
    /\ IF ignore_case
       THEN Contains(Upper(rec.line[i].chars), Upper(pattern.chars))
       ELSE Contains(rec.line[i].chars, pattern.chars)

\* LogHunter.filter_by_pattern; re.compile raises on a malformed pattern
filter_by_pattern(store, pattern, case_sensitive) ==
  IF ~pattern.valid THEN Raised("re.error")
  ELSE Returned(SelectSeq(store, LAMBDA rec : matches_pattern(rec, pattern, ~case_sensitive)))

\* datetime comparison raises TypeError between a naive and an aware operand
Comparable(a, b) == a.aware = b.aware

RECURSIVE TimeRangeLoop(_, _, _, _, _)
\* the loop of filter_by_time_range from position i on, result being the
\* list built so far
TimeRangeLoop(store, i, start, end, result) ==
  IF i > Len(store) THEN Returned(result)
  ELSE LET line == store[i]
       IN IF IsNone(line.timestamp)
          THEN TimeRangeLoop(store, i + 1, start, end, result)
          ELSE LET ts == Val(line.timestamp)
               IN IF ~IsNone(start) /\ ~Comparable(ts, Val(start))
                  THEN Raised("TypeError")
                  ELSE IF ~IsNone(start) /\ ts.t < Val(start).t
                  THEN TimeRangeLoop(store, i + 1, start, end, result)
                  ELSE IF ~IsNone(end) /\ ~Comparable(ts, Val(end))
                  THEN Raised("TypeError")
                  ELSE IF ~IsNone(end) /\ ts.t > Val(end).t
                  THEN TimeRangeLoop(store, i + 1, start, end, result)
                  ELSE TimeRangeLoop(store, i + 1, start, end, Append(result, line))

\* filter_by_time_range with the two bounds taken in the wrong order
filter_by_time_range_swapped(store, start, end) == TimeRangeLoop(store, 1, end, start, <<>>)

\* LogHunter.filter_by_time_range
filter_by_time_range(store, start, end) == TimeRangeLoop(store, 1, start, end, <<>>)

\* get_errors without the CRITICAL level
get_errors_no_critical(store) ==
  filter_by_level(store, <<LOG_LEVELS[6], LOG_LEVELS[7]>>)

\* LogHunter.get_errors
get_errors(store) ==
  filter_by_level(store, <<LOG_LEVELS[6], LOG_LEVELS[7], LOG_LEVELS[8]>>)

\* LogHunter.get_warnings
get_warnings(store) ==
  filter_by_level(store, <<LOG_LEVELS[4], LOG_LEVELS[5]>>)

\* LogHunter.get_exceptions
get_exceptions(store) ==
  SelectSeq(store, LAMBDA rec : \E i \in 1..Len(rec.line) : MatchesException(rec.line[i]))

\* LogHunter.tail
tail(store, n) == IF store # <<>> THEN PySlice(store, -n, Len(store)) ELSE <<>>

\* head with the slice one record too long
head_one_more(store, n) == IF store # <<>> THEN PySlice(store, 0, n + 1) ELSE <<>>

\* LogHunter.head
head(store, n) == IF store # <<>> THEN PySlice(store, 0, n) ELSE <<>>

RECURSIVE Windows(_, _, _, _)
\* the first loop of context: the windows of the indices, concatenated
Windows(store, line_indices, before, after) ==
  IF line_indices = <<>> THEN <<>>
  ELSE LET idx == Head(line_indices)
           start == Max(0, idx - before)
           end == Min(Len(store), idx + after + 1)
       IN PySlice(store, start, end) \o Windows(store, Tail(line_indices), before, after)

RECURSIVE Unique(_, _)
\* the second loop of context: drop every record whose key was seen
Unique(result, seen) ==
  IF result = <<>> THEN <<>>
  ELSE LET line == Head(result)
           key == <<line.file_path, line.line_num>>
       IN IF key \notin seen
          THEN <<line>> \o Unique(Tail(result), seen \cup {key})
          ELSE Unique(Tail(result), seen)

\* context without the de-duplication loop
context_all_windows(store, line_indices, before, after) ==
  Windows(store, line_indices, before, after)

\* LogHunter.context
context(store, line_indices, before, after) ==
  Unique(Windows(store, line_indices, before, after), {})

\* the positions of a sequence
Pos(seq) == 1..Len(seq)

RECURSIVE MinOf(_)
\* min() of a non-empty list of naive datetimes
MinOf(ts) ==
  IF Len(ts) = 1 THEN ts[1]
  ELSE LET m == MinOf(Tail(ts)) IN IF m.t < ts[1].t THEN m ELSE ts[1]

RECURSIVE MaxOf(_)
\* max() of a non-empty list of naive datetimes
MaxOf(ts) ==
  IF Len(ts) = 1 THEN ts[1]
  ELSE LET m == MaxOf(Tail(ts)) IN IF m.t > ts[1].t THEN m ELSE ts[1]

\* Counter(line.level for line in self.lines if line.level)
LevelCounter(store) ==
  [ l \in {Val(store[i].level) : i \in {j \in Pos(store) : ~IsNone(store[j].level)}} |->
      Cardinality({i \in Pos(store) : store[i].level = Some(l)}) ]

\* the list of the timestamps present, in store order
Timestamps(store) ==
  LET present == SelectSeq(store, LAMBDA rec : ~IsNone(rec.timestamp))
  IN [i \in Pos(present) |-> Val(present[i].timestamp)]

\* get_statistics taking the first and the last timestamp for the range
get_statistics_first_last(store) ==
  LET stats == [ total_lines |-> Len(store),
                 files       |-> Cardinality({store[i].file_path : i \in Pos(store)}),
                 levels      |-> LevelCounter(store),
                 errors      |-> Len(get_errors(store)),
                 warnings    |-> Len(get_warnings(store)),
                 exceptions  |-> Len(get_exceptions(store)) ]
      timestamps == Timestamps(store)
  IN IF timestamps # <<>>
     THEN stats @@ [ time_start |-> timestamps[1],
                     time_end   |-> timestamps[Len(timestamps)],
                     time_span  |-> timestamps[Len(timestamps)].t - timestamps[1].t ]
     ELSE stats

\* LogHunter.get_statistics
get_statistics(store) ==
  LET stats == [ total_lines |-> Len(store),
                 files       |-> Cardinality({store[i].file_path : i \in Pos(store)}),
                 levels      |-> LevelCounter(store),
                 errors      |-> Len(get_errors(store)),
                 warnings    |-> Len(get_warnings(store)),
                 exceptions  |-> Len(get_exceptions(store)) ]
      timestamps == Timestamps(store)
  IN IF timestamps # <<>>
     THEN stats @@ [ time_start |-> MinOf(timestamps),
                     time_end   |-> MaxOf(timestamps),
                     time_span  |-> MaxOf(timestamps).t - MinOf(timestamps).t ]
     ELSE stats

\* the replacement strings of get_top_patterns
TIMESTAMP == Word(<<"[","T","I","M","E","S","T","A","M","P","]">>)
IP == Word(<<"[","I","P","]">>)
NUM == Word(<<"[","N","U","M","]">>)

\* pattern.sub(repl, text): every token the pattern matches becomes repl
Sub(kind, repl, text) ==
  [i \in 1..Len(text) |-> IF text[i].kind = kind THEN repl ELSE text[i]]

\* the loop body of get_top_patterns: the four substitutions, in its order
Normalize(text) ==
  Sub("num", NUM,
      Sub("ip", IP,
          Sub("clf", TIMESTAMP,
              Sub("iso", TIMESTAMP, text))))

\* Counter(iterable): the distinct elements in order of first occurrence,
\* each with the number of its occurrences
RECURSIVE Counter(_, _)
Counter(elements, counted) ==
  IF elements = <<>> THEN counted
  ELSE LET e == Head(elements)
           at == {k \in 1..Len(counted) : counted[k][1] = e}
       IN Counter(Tail(elements),
                  IF at = {}
                  THEN Append(counted, <<e, 1>>)
                  ELSE [k \in 1..Len(counted) |->
                          IF k \in at THEN <<e, counted[k][2] + 1>>
                          ELSE counted[k]])

\* one step of sorted(items, key=itemgetter(1), reverse=True): the item goes
\* behind every item whose count is at least its own
InsertByCount(sorted, item) ==
  LET ahead == {k \in 1..Len(sorted) : sorted[k][2] >= item[2]}
      m == Cardinality(ahead)
  IN SubSeq(sorted, 1, m) \o <<item>> \o SubSeq(sorted, m + 1, Len(sorted))

RECURSIVE SortedByCount(_, _)
SortedByCount(items, sorted) ==
  IF items = <<>> THEN sorted
  ELSE SortedByCount(Tail(items), InsertByCount(sorted, Head(items)))

\* an ordering that puts the later of two equally frequent items first
most_common_ties_reversed(items, n) ==
  LET Before(a, b) == items[a][2] > items[b][2]
                      \/ (items[a][2] = items[b][2] /\ a > b)
      rank == [k \in 1..Len(items) |->
                 1 + Cardinality({j \in 1..Len(items) : Before(j, k)})]
      sorted == [r \in 1..Len(items) |->
                   items[CHOOSE k \in 1..Len(items) : rank[k] = r]]
  IN IF n <= 0 THEN <<>> ELSE SubSeq(sorted, 1, Min(n, Len(items)))

\* Counter.most_common(n) for an integer n: heapq.nlargest(n, items, key=count),
\* which is empty for n <= 0 and else the first n of the stable descending sort
most_common(items, n) ==
  IF n <= 0 THEN <<>>
  ELSE SubSeq(SortedByCount(items, <<>>), 1, Min(n, Len(items)))

\* LogHunter.get_top_patterns
get_top_patterns(store, n) ==
  LET normalized == [i \in 1..Len(store) |-> Normalize(store[i].line)]
  IN most_common(Counter(normalized, <<>>), n)

\* ---------------------------------------------------------------- state machine
\* what the last call was, with what arguments, and how it ended
Call(op, args, ret) == [op |-> op, args |-> args, ret |-> ret]

\* LogHunter.__init__
Init ==
  /\ lines = <<>>
  /\ last = Call("init", <<>>, Returned(<<>>))

\* the paths the callers pass
LogPaths == {"a.log", "b.log", "e.log", "z.log"}

\* one load_file call; ret.val lists the paths a warning was printed for
LoadFile ==
  \E p \in LogPaths :
    \E fault \in Faults(p) :
      /\ Len(lines) + Contributed(p, fault) <= MaxStore
      /\ lines' = load_file(lines, p, fault)
      /\ last' = Call("load_file", [paths |-> <<p>>, faults |-> (p :> fault)],
                      Returned(IF Warns(p, fault) THEN <<p>> ELSE <<>>))

RECURSIVE SumContributed(_, _)
\* the number of records one load_files call appends
SumContributed(files, faults) ==
  IF files = {} THEN 0
  ELSE LET p == CHOOSE q \in files : TRUE
       IN Contributed(p, faults[p]) + SumContributed(files \ {p}, faults)

LoadFiles ==
  \E files \in SUBSET (LogPaths \cap DOMAIN FileSystem) :
    \E faults \in [files -> UNION {Faults(p) : p \in files}] :
      /\ \A p \in files : faults[p] \in Faults(p)
      /\ Len(lines) + SumContributed(files, faults) <= MaxStore
      /\ lines' = load_files(lines, files, faults)
      /\ last' = Call("load_files", [paths |-> SortedPaths(files), faults |-> faults],
                      Returned(SelectSeq(SortedPaths(files), LAMBDA p : Warns(p, faults[p]))))

\* ---------------------------------------------------------------- arguments
\* level lists a caller passes, in assorted case
LevelArgs ==
  { <<>>,
    << <<"e","r","r","o","r">> >>,
    << <<"E","R","R","O","R">>, <<"w","a","r","n">> >>,
    << <<"W","a","r","n","i","n","g">>, <<"W","A","R","N">> >>,
    << <<"c","r","i","t","i","c","a","l">>, <<"E","r","r","o","r">> >>,
    << <<"e","r","r">> >> }

\* patterns a caller passes: literal letters, or a malformed expression
PatternArgs ==
  { [valid |-> TRUE, chars |-> <<"e","r","r">>],
    [valid |-> TRUE, chars |-> <<"W","a","r","n">>],
    [valid |-> FALSE, chars |-> <<"(">>] }

\* time bounds a caller passes: absent, naive, or carrying a UTC offset
TimeArgs ==
  {None} \cup {Some(Naive(t)) : t \in 1..MaxTime} \cup {Some(Aware(2))}

\* index lists a caller passes to context: up to two store indices
IndexArgs(store) ==
  LET idx == 0..(Len(store) - 1)
  IN {<<>>} \cup {<<i>> : i \in idx} \cup {<<i, j>> : i \in idx, j \in idx}

FilterByLevel ==
  \E levels \in LevelArgs :
    /\ last' = Call("filter_by_level", <<levels>>, Returned(filter_by_level(lines, levels)))
    /\ UNCHANGED lines

FilterByPattern ==
  \E pattern \in PatternArgs, case_sensitive \in BOOLEAN :
    /\ last' = Call("filter_by_pattern", <<pattern, case_sensitive>>,
                    filter_by_pattern(lines, pattern, case_sensitive))
    /\ UNCHANGED lines

FilterByTimeRange ==
  \E start \in TimeArgs, end \in TimeArgs :
    /\ last' = Call("filter_by_time_range", <<start, end>>,
                    filter_by_time_range(lines, start, end))
    /\ UNCHANGED lines

GetErrors ==
  /\ last' = Call("get_errors", <<>>, Returned(get_errors(lines)))
  /\ UNCHANGED lines

GetWarnings ==
  /\ last' = Call("get_warnings", <<>>, Returned(get_warnings(lines)))
  /\ UNCHANGED lines

GetExceptions ==
  /\ last' = Call("get_exceptions", <<>>, Returned(get_exceptions(lines)))
  /\ UNCHANGED lines

GetStatistics ==
  /\ last' = Call("get_statistics", <<>>, Returned(get_statistics(lines)))
  /\ UNCHANGED lines

TailOp ==
  \E n \in -1..MaxN :
    /\ last' = Call("tail", <<n>>, Returned(tail(lines, n)))
    /\ UNCHANGED lines

HeadOp ==
  \E n \in -1..MaxN :
    /\ last' = Call("head", <<n>>, Returned(head(lines, n)))
    /\ UNCHANGED lines

GetTopPatterns ==
  \E n \in -1..MaxN :
    /\ last' = Call("get_top_patterns", <<n>>, Returned(get_top_patterns(lines, n)))
    /\ UNCHANGED lines

Context ==
  \E line_indices \in IndexArgs(lines), before \in {0, MaxCtx}, after \in {0, MaxCtx} :
    /\ last' = Call("context", <<line_indices, before, after>>,
                    Returned(context(lines, line_indices, before, after)))
    /\ UNCHANGED lines

Next ==
  \/ LoadFile
  \/ LoadFiles
  \/ FilterByLevel
  \/ FilterByPattern
  \/ FilterByTimeRange
  \/ GetErrors
  \/ GetWarnings
  \/ GetExceptions
  \/ GetStatistics
  \/ TailOp
  \/ HeadOp
  \/ Context
  \/ GetTopPatterns

Spec == Init /\ [][Next]_vars

\* ---------------------------------------------------------------- pattern counting
\* the logs the pattern counts are studied on
PatternPaths == {"a.log", "n.log"}

\* one load_file call on one of them
LoadPatternLog ==
  \E p \in PatternPaths :
    \E fault \in Faults(p) :
      /\ Len(lines) + Contributed(p, fault) <= MaxPatStore
      /\ lines' = load_file(lines, p, fault)
      /\ last' = Call("load_file", [paths |-> <<p>>, faults |-> (p :> fault)],
                      Returned(IF Warns(p, fault) THEN <<p>> ELSE <<>>))

NextPatterns ==
  \/ LoadPatternLog
  \/ GetTopPatterns

SpecPatterns == Init /\ [][NextPatterns]_vars

\* ---------------------------------------------------------------- reloading
\* one load_file call that reads its file to the end
LoadWholeFile ==
  \E p \in PatternPaths :
    /\ Len(lines) + Contributed(p, None) <= MaxPatStore
    /\ lines' = load_file(lines, p, None)
    /\ last' = Call("load_file", [paths |-> <<p>>, faults |-> (p :> None)],
                    Returned(<<>>))

NextReload ==
  \/ LoadWholeFile
  \/ Context

\* stores built by complete loads only, the same path any number of times
SpecReload == Init /\ [][NextReload]_vars

\* ---------------------------------------------------------------- parse_time_arg
\* instants are counted in seconds; datetime.min lies MaxAge seconds before 0
DATETIME_MIN == 0 - MaxAge

DIGITS == <<"0", "1", "2", "3", "4", "5", "6", "7", "8", "9">>
IsDigit(c) == \E d \in 1..Len(DIGITS) : DIGITS[d] = c
DigitValue(c) == (CHOOSE d \in 1..Len(DIGITS) : DIGITS[d] = c) - 1

RECURSIVE int(_)
\* int(text) for a text of decimal digits
int(chars) ==
  IF chars = <<>> THEN 0
  ELSE 10 * int(SubSeq(chars, 1, Len(chars) - 1)) + DigitValue(chars[Len(chars)])

UNITS == {"s", "m", "h", "d"}

\* the seconds in timedelta(seconds=1), (minutes=1), (hours=1), (days=1)
UnitSeconds(unit) ==
  CASE unit = "s" -> 1
    [] unit = "m" -> 60
    [] unit = "h" -> 3600
    [] unit = "d" -> 86400

\* re.match(r'^(\d+)([smhd])$', time_str): $ matches at the end and before
\* one final newline; the result is None or the pair of groups
MatchRelative(time_str) ==
  LET text == IF Len(time_str) > 0 /\ time_str[Len(time_str)] = NL
              THEN SubSeq(time_str, 1, Len(time_str) - 1)
              ELSE time_str
  IN IF /\ Len(text) = 1
        /\ text[1].kind = "word"
        /\ Len(text[1].chars) >= 2
        /\ \A i \in 1..(Len(text[1].chars) - 1) : IsDigit(text[1].chars[i])
        /\ text[1].chars[Len(text[1].chars)] \in UNITS
     THEN Some(<<SubSeq(text[1].chars, 1, Len(text[1].chars) - 1),
                 text[1].chars[Len(text[1].chars)]>>)
     ELSE None

\* datetime.fromisoformat(time_str)
fromisoformat(time_str) ==
  IF Len(time_str) = 1 /\ time_str[1].kind = "iso" /\ time_str[1].ok
  THEN Returned(Naive(time_str[1].t))
  ELSE IF /\ Len(time_str) = 2
          /\ time_str[1].kind = "iso" /\ time_str[1].ok
          /\ time_str[2].kind = "tz"
  THEN Returned(Aware(time_str[1].t - time_str[2].offset))
  ELSE Raised("ValueError")

\* now - timedelta(...): OverflowError when the difference lies before
\* datetime.min (timedelta's own limit lies beyond that and raises the same)
Subtract(now, seconds) ==
  IF now - seconds < DATETIME_MIN
  THEN RaisedWith("OverflowError", <<"date value out of range">>)
  ELSE Returned(Naive(now - seconds))

\* f"Invalid time format: {time_str}"
InvalidTimeFormat(time_str) == <<"Invalid time format: ", time_str>>

\* parse_time_arg, now being what datetime.now() returns
parse_time_arg(time_str, now) ==
  LET match == MatchRelative(time_str)
  IN IF ~IsNone(match)
     THEN LET value == int(Val(match)[1])
              unit == Val(match)[2]
          IN Subtract(now, value * UnitSeconds(unit))
     ELSE IF fromisoformat(time_str).exc = "none"
     THEN fromisoformat(time_str)
     ELSE RaisedWith("ValueError", InvalidTimeFormat(time_str))

\* the amounts written in the relative texts
Amounts == { <<"0">>, <<"1">>, <<"2">>, <<"0", "3">>, <<"2", "6">> }

\* time expressions a caller passes: relative ones, ISO texts with and
\* without a UTC offset, and texts of neither form
TimeTexts ==
  { <<Word(Append(a, u))>> : a \in Amounts, u \in UNITS }
  \cup { <<Word(<<"1", "h">>), NL>> }
  \cup { <<Iso(t, TRUE)>> : t \in 1..MaxTime }
  \cup { <<Iso(2, TRUE), Tz(0)>>, <<Iso(2, TRUE), Tz(1)>>, <<Iso(9, FALSE)>> }
  \cup { <<>>, <<Word(<<"h">>)>>, <<Word(<<"5", "y">>)>>, <<Word(<<"x", "1", "h">>)>>,
         <<Word(<<"1", "h">>), Word(<<"1", "h">>)>>, <<Iso(2, TRUE), NL>>,
         <<Word(<<"1", "h">>), CR>> }

\* what datetime.now() may read
Clock == MaxTime..(MaxTime + 1)

ParseTimeArg ==
  \E time_str \in TimeTexts, now \in Clock :
    /\ last' = Call("parse_time_arg", [time_str |-> time_str, now |-> now],
                    parse_time_arg(time_str, now))
    /\ UNCHANGED lines

NextTime ==
  \/ LoadFile
  \/ ParseTimeArg

SpecTime == Init /\ [][NextTime]_vars

\* ---------------------------------------------------------------- command line
\* one thing printed on standard output
Item(kind, val) == [kind |-> kind, val |-> val]

\* how the process ends: its exit status and what it printed
Exit(status, out) == Returned([status |-> status, out |-> out])

\* the top-level handler: except Exception as e, print the error, sys.exit(1)
Fatal(out, raised) ==
  Exit(1, out \o <<Item("error", [exc |-> raised.exc, message |-> raised.val])>>)

\* what load_files prints on standard output
LoadFilesOutput(files, faults) ==
  IF files = {} THEN <<Item("no_files_found", <<>>)>>
  ELSE << Item("loading", Cardinality(files)),
          Item("loaded", <<Len(load_files(<<>>, files, faults)), Cardinality(files)>>) >>

\* the truth value of an optional int: None and 0 are false
Truthy(limit) == ~IsNone(limit) /\ Val(limit) # 0

\* the truth value of an optional text: None and '' are false
Given(text) == ~IsNone(text) /\ Val(text) # <<>>

\* print_lines
print_lines(results, limit, highlight) ==
  IF results = <<>> THEN <<Item("no_results", <<>>)>>
  ELSE LET display_lines == IF Truthy(limit) THEN PySlice(results, 0, Val(limit))
                            ELSE results
       IN [k \in 1..Len(display_lines) |->
             Item("line", [line |-> display_lines[k], highlight |-> highlight])]
          \o (IF Truthy(limit) /\ Len(results) > Val(limit)
              THEN <<Item("more", Len(results) - Val(limit))>>
              ELSE <<>>)

\* list.index(line): the 0-based position of the first equal element;
\* LogLine defines no __eq__, so equal means the same object
Index(store, line) ==
  (CHOOSE i \in 1..Len(store) :
     /\ store[i] = line
     /\ \A j \in 1..(i - 1) : store[j] # line) - 1

\* re.compile(pattern, flags)
compile(pattern) ==
  IF pattern.valid THEN Returned(pattern) ELSE Raised("re.error")

\* main for the search command, under the top-level handler;
\* args.files is what the glob matches
main_search(args, faults) ==
  LET store == load_files(<<>>, args.files, faults)
      out == LoadFilesOutput(args.files, faults)
      found == filter_by_pattern(store, args.pattern, ~args.ignore_case)
      indices == [k \in 1..Len(found.val) |-> Index(store, found.val[k])]
      results == IF args.context > 0
                 THEN context(store, indices, args.context, args.context)
                 ELSE found.val
      highlight == compile(args.pattern)
  IN IF store = <<>> THEN Exit(0, out \o <<Item("no_log_data", <<>>)>>)
     ELSE IF found.exc # "none" THEN Fatal(out, found)
     ELSE IF highlight.exc # "none"
     THEN Fatal(out \o <<Item("found", Len(results))>>, highlight)
     ELSE Exit(0, out \o <<Item("found", Len(results))>>
                      \o print_lines(results, args.limit, Some(highlight.val)))

\* main for the time command, under the top-level handler; now1 and now2
\* are what datetime.now() reads in the two parse_time_arg calls
main_time(args, faults, now1, now2) ==
  LET store == load_files(<<>>, args.files, faults)
      out == LoadFilesOutput(args.files, faults)
      start_time == IF Given(args.since)
                    THEN parse_time_arg(Val(args.since), now1)
                    ELSE Returned(<<>>)
      end_time == IF Given(args.until)
                  THEN parse_time_arg(Val(args.until), now2)
                  ELSE Returned(<<>>)
      start == IF Given(args.since) THEN Some(start_time.val) ELSE None
      end == IF Given(args.until) THEN Some(end_time.val) ELSE None
      results == filter_by_time_range(store, start, end)
  IN IF store = <<>> THEN Exit(0, out \o <<Item("no_log_data", <<>>)>>)
     ELSE IF start_time.exc # "none" THEN Fatal(out, start_time)
     ELSE IF end_time.exc # "none" THEN Fatal(out, end_time)
     ELSE IF results.exc # "none" THEN Fatal(out, results)
     ELSE Exit(0, out \o <<Item("found", Len(results.val))>>
                      \o print_lines(results.val, args.limit, None))

\* what the files argument may match, and how reading each file may fail
GlobArgs == SUBSET (LogPaths \cap DOMAIN FileSystem)
FaultArgs(files) ==
  {faults \in [files -> UNION {Faults(p) : p \in files}] :
     \A p \in files : faults[p] \in Faults(p)}

\* --limit as given on the command line
LimitArgs == {None, Some(1)}

\* --since / --until as given on the command line
SinceArgs ==
  {None} \cup
  { Some(text) : text \in { <<>>, <<Word(<<"1", "s">>)>>, <<Word(<<"2", "d">>)>>,
                            <<Word(<<"5", "y">>)>>, <<Iso(2, TRUE)>>,
                            <<Iso(2, TRUE), Tz(0)>> } }

\* one run of the search command
MainSearch ==
  \E files \in GlobArgs, pattern \in PatternArgs, ignore_case \in BOOLEAN,
     ctx \in {0, MaxCtx}, limit \in LimitArgs :
    \E faults \in FaultArgs(files) :
      LET args == [command |-> "search", files |-> files, pattern |-> pattern,
                   ignore_case |-> ignore_case, context |-> ctx, limit |-> limit]
      IN /\ last.op = "init"
         /\ lines' = load_files(lines, files, faults)
         /\ last' = Call("main", args, main_search(args, faults))

\* one run of the time command
MainTime ==
  \E files \in GlobArgs, since \in SinceArgs, until \in SinceArgs,
     limit \in LimitArgs, now1 \in Clock :
    \E faults \in FaultArgs(files), now2 \in now1..(MaxTime + 1) :
      LET args == [command |-> "time", files |-> files, since |-> since,
                   until |-> until, limit |-> limit]
      IN /\ last.op = "init"
         /\ lines' = load_files(lines, files, faults)
         /\ last' = Call("main", args, main_time(args, faults, now1, now2))

NextCli ==
  \/ MainSearch
  \/ MainTime

\* one process: the interpreter starts, main runs once
SpecCli == Init /\ [][NextCli]_vars

\* ---------------------------------------------------------------- properties
\* the records of store at the positions P, in ascending order of position
AtPositions(store, P) ==
  [ k \in 1..Cardinality(P) |->
      store[CHOOSE i \in P : Cardinality({j \in P : j < i}) = k - 1] ]

\* the store positions (1-based) the records of a result sit at
PositionsOf(result) == {result[k].id : k \in 1..Len(result)}

LowerChar(c) ==
  IF \E i \in 1..26 : UpperAlphabet[i] = c
  THEN LowerAlphabet[CHOOSE i \in 1..26 : UpperAlphabet[i] = c]
  ELSE c

EqualIgnoringCase(v, w) ==
  /\ Len(v) = Len(w)
  /\ \A i \in 1..Len(v) : LowerChar(v[i]) = LowerChar(w[i])

Requested(rec, levels) ==
  /\ ~IsNone(rec.level)
  /\ \E i \in 1..Len(levels) : EqualIgnoringCase(Val(rec.level), levels[i])

DisjointLevels(A, B) ==
  \A i \in 1..Len(A), j \in 1..Len(B) : ~EqualIgnoringCase(A[i], B[j])

\* C1: filter_by_level(levels) returns exactly the store records whose level
\* is present and equals, ignoring case, a requested level, in store order,
\* once per store position; for disjoint level lists the result sizes add up.
C1_FilterByLevelExact ==
  /\ last.op = "filter_by_level" =>
       /\ last.ret.exc = "none"
       /\ last.ret.val =
            AtPositions(lines, {i \in Pos(lines) : Requested(lines[i], last.args[1])})
  /\ \A A \in LevelArgs, B \in LevelArgs :
       DisjointLevels(A, B) =>
         Len(filter_by_level(lines, A \o B)) =
           Len(filter_by_level(lines, A)) + Len(filter_by_level(lines, B))

\* a level filter asked in lower and mixed case picked two of three records
C1_Witness ==
  /\ last.op = "filter_by_level"
  /\ last.args[1] = << <<"c","r","i","t","i","c","a","l">>, <<"E","r","r","o","r">> >>
  /\ Len(lines) = 3
  /\ Len(last.ret.val) = 2

InRange(rec, start, end) ==
  /\ ~IsNone(rec.timestamp)
  /\ IsNone(start) \/ Val(start).t <= Val(rec.timestamp).t
  /\ IsNone(end) \/ Val(rec.timestamp).t <= Val(end).t

\* a bound that can be compared with the timestamp of a line
NaiveOrAbsent(bound) == IsNone(bound) \/ ~Val(bound).aware

\* C2: filter_by_time_range(start, end) returns, in store order, exactly the
\* records with a timestamp t such that (start absent or start <= t) and
\* (end absent or t <= end); a record without timestamp is never in the
\* result, whatever the bounds.  With bounds that are absent or naive the
\* call always returns.
C2_TimeRangeExact ==
  last.op = "filter_by_time_range" =>
    /\ last.ret.exc = "none" =>
         last.ret.val =
           AtPositions(lines, {i \in Pos(lines) :
                                 InRange(lines[i], last.args[1], last.args[2])})
    /\ (NaiveOrAbsent(last.args[1]) /\ NaiveOrAbsent(last.args[2])) =>
         last.ret.exc = "none"
    /\ \A k \in 1..Len(last.ret.val) : ~IsNone(last.ret.val[k].timestamp)

\* both bounds supplied; one of two timestamped records is in range and a
\* record without timestamp is in the store
C2_Witness ==
  /\ last.op = "filter_by_time_range"
  /\ ~IsNone(last.args[1]) /\ ~IsNone(last.args[2])
  /\ Len(last.ret.val) = 1
  /\ Cardinality({i \in Pos(lines) : ~IsNone(lines[i].timestamp)}) = 2
  /\ \E i \in Pos(lines) : IsNone(lines[i].timestamp)

\* C3 (as claimed): for n >= 0, head(n) is the first min(n, S) records and
\* tail(n) the last min(n, S) records of the store.
C3_HeadTailExact ==
  (last.op \in {"head", "tail"} /\ last.args[1] >= 0) =>
    LET S == Len(lines)
        m == IF last.args[1] < S THEN last.args[1] ELSE S
    IN last.ret.val =
         IF last.op = "head"
         THEN AtPositions(lines, 1..m)
         ELSE AtPositions(lines, (S - m + 1)..S)

Covers(n) ==
  PositionsOf(head(lines, n)) \cup PositionsOf(tail(lines, n)) = Pos(lines)

NoOverlap(n) ==
  PositionsOf(head(lines, n)) \cap PositionsOf(tail(lines, n)) = {}

\* C4 (as claimed): for n >= 0, head(n) and tail(n) cover the store when
\* n >= S and do not overlap when n < S.
C4_CoverOrDisjoint ==
  \A n \in 0..MaxN :
    /\ n >= Len(lines) => Covers(n)
    /\ n < Len(lines) => NoOverlap(n)

\* C4 (amended): for n >= 0, head(n) and tail(n) cover the store when n >= S
\* and do not overlap when 2n <= S.
C4_CoverOrDisjointHalf ==
  \A n \in 0..MaxN :
    /\ n >= Len(lines) => Covers(n)
    /\ 2 * n <= Len(lines) => NoOverlap(n)

\* tail(1) was taken of a store of three records: it and head(1) are apart
C4_Witness ==
  /\ last.op = "tail"
  /\ last.args[1] = 1
  /\ Len(lines) = 3
  /\ Len(last.ret.val) = 1
  /\ NoOverlap(1)

Key(rec) == <<rec.file_path, rec.line_num>>

\* the 1-based store positions of the clamped window of a 0-based index
Window(idx, before, after) ==
  {p \in Pos(lines) : idx - before <= p - 1 /\ p - 1 <= idx + after}

\* <<m, p>>: the m-th window holds store position p
Seen(line_indices, before, after) ==
  {<<m, p>> \in (1..Len(line_indices)) \X Pos(lines) :
     p \in Window(line_indices[m], before, after)}

Earlier(a, b) == a[1] < b[1] \/ (a[1] = b[1] /\ a[2] < b[2])

\* where a key is seen first in the concatenated windows
FirstSeen(key, seen) ==
  CHOOSE a \in seen :
    /\ Key(lines[a[2]]) = key
    /\ \A b \in seen : Key(lines[b[2]]) = key => (a = b \/ Earlier(a, b))

\* C5: context(indices, before, after) returns no two records with the same
\* (file_path, line_num); every returned record is a store record inside the
\* clamped window of a given index; the records are those first seen for
\* their key, in first-seen order of the concatenated windows; a single
\* index yields at most before + after + 1 records.
C5_ContextWindows ==
  last.op = "context" =>
    LET res == last.ret.val
        line_indices == last.args[1]
        before == last.args[2]
        after == last.args[3]
        seen == Seen(line_indices, before, after)
    IN /\ \A k \in Pos(res), l \in Pos(res) : k # l => Key(res[k]) # Key(res[l])
       /\ \A k \in Pos(res) :
            /\ res[k].id \in Pos(lines)
            /\ lines[res[k].id] = res[k]
            /\ \E m \in Pos(line_indices) :
                 res[k].id \in Window(line_indices[m], before, after)
            /\ FirstSeen(Key(res[k]), seen)[2] = res[k].id
       /\ {Key(res[k]) : k \in Pos(res)} = {Key(lines[a[2]]) : a \in seen}
       /\ \A k \in Pos(res), l \in Pos(res) :
            k < l => Earlier(FirstSeen(Key(res[k]), seen), FirstSeen(Key(res[l]), seen))
       /\ Len(line_indices) = 1 => Len(res) <= before + after + 1

\* two overlapping windows over a store of three records, the later index
\* first: the five records seen are returned as three
C5_Witness ==
  /\ last.op = "context"
  /\ last.args = << <<1, 0>>, 1, 1 >>
  /\ Len(lines) = 3
  /\ Len(last.ret.val) = 3
  /\ last.ret.val[1].id = 1
  /\ \A k \in Pos(lines), l \in Pos(lines) : k # l => Key(lines[k]) # Key(lines[l])

IsLoad(op) == op \in {"load_file", "load_files"}

RECURSIVE SumOf(_, _)
\* f[1] + ... + f[m]
SumOf(f, m) == IF m = 0 THEN 0 ELSE f[m] + SumOf(f, m - 1)

\* the record the k-th line of an existing file is loaded as, but for its id
Loaded(rec, file_path, k) ==
  /\ rec.file_path = file_path
  /\ rec.line_num = k
  /\ rec.line = RStrip(FileSystem[file_path][k])

\* C6: the store is a concatenation of blocks, one per loaded file in load
\* order; within a block the line numbers are 1, 2, ..., count in that order,
\* so every line number is >= 1, and a file read to its end contributes as
\* many records as it has lines.
C6_BlocksNumberedFromOne ==
  /\ \A i \in Pos(lines) :
       /\ lines[i].line_num >= 1
       /\ lines[i].line_num <= Len(FileSystem[lines[i].file_path])
       /\ Loaded(lines[i], lines[i].file_path, lines[i].line_num)
       /\ \/ lines[i].line_num = 1
          \/ /\ i > 1
             /\ lines[i - 1].file_path = lines[i].file_path
             /\ lines[i - 1].line_num = lines[i].line_num - 1
  /\ IsLoad(last.op) =>
       LET paths == last.args.paths
           faults == last.args.faults
           count == [m \in Pos(paths) |-> Contributed(paths[m], faults[paths[m]])]
           base == Len(lines) - SumOf(count, Len(paths))
       IN /\ base >= 0
          /\ \A m \in Pos(paths) :
               /\ (Exists(paths[m]) /\ IsNone(faults[paths[m]])) =>
                    count[m] = Len(FileSystem[paths[m]])
               /\ \A k \in 1..count[m] :
                    Loaded(lines[base + SumOf(count, m - 1) + k], paths[m], k)

\* a batch of two files, both read to their end, was appended to a store
\* that held a record of another file
C6_Witness ==
  /\ last.op = "load_files"
  /\ last.args.paths = <<"a.log", "e.log">>
  /\ \A p \in DOMAIN last.args.faults : IsNone(last.args.faults[p])
  /\ Len(lines) = 3
  /\ lines[1].file_path = "b.log"
  /\ lines[3].line_num = 2

RECURSIVE CleanBlocks(_, _, _)
\* the records a batch appends when every failing file contributes nothing
CleanBlocks(paths, faults, base) ==
  IF paths = <<>> THEN <<>>
  ELSE LET p == Head(paths)
           n == IF Warns(p, faults[p]) THEN 0 ELSE Len(FileSystem[p])
       IN [k \in 1..n |-> LogLine(FileSystem[p][k], k, p, base + k)]
            \o CleanBlocks(Tail(paths), faults, base + n)

\* C7 (as claimed): a load_file that fails, at whatever point, does not
\* raise and leaves the store as it was, and the other files of the batch
\* are loaded in order.
C7_FailedLoadContributesNothing ==
  [][ IsLoad(last'.op) =>
        /\ last'.ret.exc = "none"
        /\ lines' = lines \o CleanBlocks(last'.args.paths, last'.args.faults, Len(lines)) ]_vars

\* C8: every load leaves the previous store as a prefix of the new one;
\* every query leaves the store as it was; a query repeated with no load in
\* between returns the same result.
C8_AppendOnlyReadOnly ==
  [][ /\ Len(lines') >= Len(lines)
      /\ SubSeq(lines', 1, Len(lines)) = lines
      /\ ~IsLoad(last'.op) => lines' = lines
      /\ (~IsLoad(last'.op) /\ last'.op = last.op /\ last'.args = last.args) =>
           last'.ret = last.ret ]_vars

\* a file was loaded onto a store that held records of another file
C8_Witness ==
  /\ last.op = "load_file"
  /\ last.args.paths = <<"a.log">>
  /\ Len(lines) = 3
  /\ lines[1].file_path = "b.log"
  /\ lines[3].file_path = "a.log"

ERROR_LEVELS ==
  { <<"E","R","R","O","R">>, <<"F","A","T","A","L">>, <<"C","R","I","T","I","C","A","L">> }

WARNING_LEVELS ==
  { <<"W","A","R","N">>, <<"W","A","R","N","I","N","G">> }

WithLevelIn(S) ==
  {i \in Pos(lines) : ~IsNone(lines[i].level) /\ Val(lines[i].level) \in S}

RECURSIVE SumOver(_, _)
\* the sum of f over the set D
SumOver(f, D) ==
  IF D = {} THEN 0
  ELSE LET d == CHOOSE e \in D : TRUE IN f[d] + SumOver(f, D \ {d})

\* C9: get_statistics gives total_lines = store size, files = number of
\* distinct file paths, levels = each occurring level with the number of
\* records carrying it (counts summing to at most total_lines), errors =
\* records with level ERROR, FATAL or CRITICAL = size of get_errors(),
\* warnings = records with level WARN or WARNING = size of get_warnings(),
\* exceptions = size of get_exceptions().
C9_StatisticsCounts ==
  last.op = "get_statistics" =>
    LET st == last.ret.val
    IN /\ st.total_lines = Len(lines)
       /\ \E paths \in SUBSET {Paths[i] : i \in Pos(Paths)} :
            /\ Cardinality(paths) = st.files
            /\ \A p \in paths : \E i \in Pos(lines) : lines[i].file_path = p
            /\ \A i \in Pos(lines) : lines[i].file_path \in paths
       /\ \A i \in Pos(lines) :
            ~IsNone(lines[i].level) => Val(lines[i].level) \in DOMAIN st.levels
       /\ \A l \in DOMAIN st.levels :
            /\ st.levels[l] >= 1
            /\ st.levels[l] = Cardinality(WithLevelIn({l}))
       /\ SumOver(st.levels, DOMAIN st.levels) <= st.total_lines
       /\ st.errors = Cardinality(WithLevelIn(ERROR_LEVELS))
       /\ st.errors = Len(get_errors(lines))
       /\ st.warnings = Cardinality(WithLevelIn(WARNING_LEVELS))
       /\ st.warnings = Len(get_warnings(lines))
       /\ st.exceptions = Len(get_exceptions(lines))

\* statistics of three records from two files: two error-level records, one
\* record without level, two records mentioning an exception
C9_Witness ==
  /\ last.op = "get_statistics"
  /\ last.ret.val.total_lines = 3
  /\ last.ret.val.files = 2
  /\ last.ret.val.errors = 2
  /\ last.ret.val.warnings = 0
  /\ last.ret.val.exceptions = 2
  /\ \E i \in Pos(lines) : IsNone(lines[i].level)

\* the instants of the timestamps present in the store
Instants == {Val(lines[i].timestamp).t : i \in {j \in Pos(lines) : ~IsNone(lines[j].timestamp)}}

TimeFields == {"time_start", "time_end", "time_span"}

\* C10: the snapshot has time_start, time_end and time_span exactly when
\* some record has a timestamp; then time_start is the least and time_end
\* the greatest timestamp, and time_span = time_end - time_start >= 0;
\* otherwise none of the three fields is there.
C10_TimeFields ==
  last.op = "get_statistics" =>
    LET st == last.ret.val
    IN /\ Instants # {} => TimeFields \subseteq DOMAIN st
       /\ Instants = {} => TimeFields \cap DOMAIN st = {}
       /\ Instants # {} =>
            /\ st.time_start.t \in Instants
            /\ \A t \in Instants : st.time_start.t <= t
            /\ st.time_end.t \in Instants
            /\ \A t \in Instants : t <= st.time_end.t
            /\ st.time_start.t <= st.time_end.t
            /\ st.time_span = st.time_end.t - st.time_start.t
            /\ st.time_span >= 0

\* the earliest timestamp sits after the latest in the store, next to a
\* record without timestamp
C10_Witness ==
  /\ last.op = "get_statistics"
  /\ "time_span" \in DOMAIN last.ret.val
  /\ last.ret.val.time_span = 1
  /\ Val(lines[1].timestamp).t = last.ret.val.time_end.t
  /\ \E i \in Pos(lines) : IsNone(lines[i].timestamp)

\* ---------------------------------------------------------------- C11
\* the normalized texts of the store
Patterns(store) == {Normalize(store[i].line) : i \in Pos(store)}

\* the number of records whose normalized text is pattern
Occurrences(store, pattern) ==
  Cardinality({i \in Pos(store) : Normalize(store[i].line) = pattern})

\* the store position a pattern first occurs at
FirstOccurrence(store, pattern) ==
  CHOOSE i \in Pos(store) :
    /\ Normalize(store[i].line) = pattern
    /\ \A j \in 1..(i - 1) : Normalize(store[j].line) # pattern

\* C11: get_top_patterns(n) with n >= 0 returns min(n, D) pairs of distinct
\* patterns with their exact counts, counts non-increasing, no omitted
\* pattern more frequent than a returned one, and among equally frequent
\* patterns the one first occurring earlier comes first and is preferred
\* at the cut-off.
C11_TopPatterns ==
  (last.op = "get_top_patterns" /\ last.args[1] >= 0) =>
    LET n == last.args[1]
        res == last.ret.val
        returned == {res[k][1] : k \in 1..Len(res)}
        omitted == Patterns(lines) \ returned
    IN /\ last.ret.exc = "none"
       /\ Len(res) = Min(n, Cardinality(Patterns(lines)))
       /\ Cardinality(returned) = Len(res)
       /\ \A k \in 1..Len(res) :
            /\ res[k][1] \in Patterns(lines)
            /\ res[k][2] = Occurrences(lines, res[k][1])
       /\ \A k, l \in 1..Len(res) :
            k < l =>
              \/ res[k][2] > res[l][2]
              \/ /\ res[k][2] = res[l][2]
                 /\ FirstOccurrence(lines, res[k][1]) < FirstOccurrence(lines, res[l][1])
       /\ \A k \in 1..Len(res) : \A p \in omitted :
            \/ Occurrences(lines, p) < res[k][2]
            \/ /\ Occurrences(lines, p) = res[k][2]
               /\ FirstOccurrence(lines, res[k][1]) < FirstOccurrence(lines, p)

\* a pattern counted over two records that differ in their raw text comes
\* ahead of one that occurred earlier, and a tie is cut between two others
C11_Witness ==
  /\ last.op = "get_top_patterns"
  /\ last.args[1] = 2
  /\ Len(last.ret.val) = 2
  /\ last.ret.val[1][2] = 2
  /\ last.ret.val[2][2] = 1
  /\ FirstOccurrence(lines, last.ret.val[1][1]) > FirstOccurrence(lines, last.ret.val[2][1])
  /\ \E i, j \in Pos(lines) :
       /\ lines[i].line # lines[j].line
       /\ Normalize(lines[i].line) = Normalize(lines[j].line)
  /\ \E p \in Patterns(lines) :
       /\ p # last.ret.val[2][1]
       /\ Occurrences(lines, p) = 1

\* ---------------------------------------------------------------- C12
\* C12: parse_time_arg either returns an instant or fails with the
\* invalid-time-format error naming its input; no input makes it fail with
\* any other error.
C12_OnlyInvalidTimeFormat ==
  last.op = "parse_time_arg" =>
    \/ /\ last.ret.exc = "none"
       /\ last.ret.val \in [t : Int, aware : BOOLEAN]
    \/ /\ last.ret.exc = "ValueError"
       /\ last.ret.val = InvalidTimeFormat(last.args.time_str)

\* ---------------------------------------------------------------- C13
\* a text of the form <digits><unit>
IsRelative(time_str) ==
  /\ Len(time_str) = 1
  /\ time_str[1].kind = "word"
  /\ \E a \in Amounts, u \in UNITS : time_str[1].chars = Append(a, u)

\* C13: for a text <digits><unit> with amount v, parse_time_arg returns
\* now - v units, which is never later than now; the relative reading
\* comes before the ISO one.
C13_RelativeInstant ==
  (last.op = "parse_time_arg" /\ IsRelative(last.args.time_str)) =>
    LET chars == last.args.time_str[1].chars
        v == int(SubSeq(chars, 1, Len(chars) - 1))
        unit == chars[Len(chars)]
    IN /\ last.ret.exc = "none"
       /\ last.ret.val = Naive(last.args.now - v * UnitSeconds(unit))
       /\ last.ret.val.t <= last.args.now

\* ---------------------------------------------------------------- C14
\* C14: a store built from the result of filter_by_level(L), filtered by a
\* superset of L, gives the same sequence of records as filter_by_level(L)
\* gave on the original store.
C14_FilterByLevelIdempotent ==
  last.op = "filter_by_level" =>
    \A more \in LevelArgs :
      filter_by_level(last.ret.val, last.args[1] \o more) = last.ret.val

\* two records were kept, one was left out, and the superset names the
\* level of the record left out
C14_Witness ==
  /\ last.op = "filter_by_level"
  /\ Len(last.ret.val) = 2
  /\ Len(lines) = 3
  /\ \E more \in LevelArgs :
       /\ filter_by_level(lines, last.args[1] \o more) = lines
       /\ filter_by_level(last.ret.val, last.args[1] \o more) = last.ret.val

\* ---------------------------------------------------------------- C15
\* a time expression that is neither relative nor parseable as ISO
InvalidTime(opt) ==
  /\ ~IsNone(opt)
  /\ IsNone(MatchRelative(Val(opt)))
  /\ fromisoformat(Val(opt)).exc # "none"

InvalidQuery(args) ==
  \/ args.command = "search" /\ ~args.pattern.valid
  \/ args.command = "time" /\ (InvalidTime(args.since) \/ InvalidTime(args.until))

\* C15: a run whose regex (search) or time expression (time --since/--until)
\* is invalid reports the error, exits with a non-zero status and prints no
\* result line, whatever files were matched or loaded.
C15_InvalidQueryFatal ==
  (last.op = "main" /\ InvalidQuery(last.args)) =>
    LET out == last.ret.val.out
    IN /\ last.ret.val.status # 0
       /\ \E k \in 1..Len(out) : out[k].kind = "error"
       /\ \A k \in 1..Len(out) : out[k].kind # "line"

\* ---------------------------------------------------------------- C16
\* the store positions inside the clamped window of some given index
Covered(line_indices, before, after) ==
  UNION {Window(line_indices[m], before, after) : m \in Pos(line_indices)}

\* C16: in a store built by load_file calls, the same path possibly loaded
\* more than once, context with valid indices returns exactly one record
\* for every store position in the union of the clamped windows.
C16_ContextOnePerPosition ==
  last.op = "context" =>
    LET res == last.ret.val
        covered == Covered(last.args[1], last.args[2], last.args[3])
    IN /\ Len(res) = Cardinality(covered)
       /\ {res[k].id : k \in Pos(res)} = covered

\* ---------------------------------------------------------------- C17
\* C17: every instant parse_time_arg returns, used as the start or as the
\* end bound, lets filter_by_time_range over the store complete without
\* raising.
C17_ParsedBoundsComparable ==
  (last.op = "parse_time_arg" /\ last.ret.exc = "none") =>
    /\ filter_by_time_range(lines, Some(last.ret.val), None).exc = "none"
    /\ filter_by_time_range(lines, None, Some(last.ret.val)).exc = "none"

====
